---------------------------- MODULE Spec2Model ----------------------------
(***************************************************************************)
(* parse_biotic3.py: the SAX content handler Biotic3 that extracts rows    *)
(* from biotic v3 XML documents, and the main program that runs it over    *)
(* the files of a folder.                                                  *)
(*                                                                         *)
(* A string is a sequence of one-character strings, so that replace,      *)
(* strip and join are computed as Python computes them.  A dict is a       *)
(* function whose domain is the set of its keys.                           *)
(***************************************************************************)
EXTENDS Integers, Sequences, FiniteSets, TLC

(***************************************************************************)
(* Options (src/parse_biotic3.py:41-57)                                    *)
(***************************************************************************)
\* NAME_PATTERN = "biotic*.xml"
NAME_PATTERN == <<"b","i","o","t","i","c","*",".","x","m","l">>

\* "Referanseflåten-Kyst", its one non-ASCII letter written as "a"
MISSIONTYPENAME ==
    <<"R","e","f","e","r","a","n","s","e","f","l","a","t","e","n","-","K","y","s","t">>

VARS ==
    << "platformname", "callsignal", "serial", "stationstartdate", "stationstopdate",
       "latitudestart", "longitudestart", "area", "location", "fishingdepthmax",
       "fishingdepthmin", "gear", "gearcount", "soaktime", "stationcomment",
       "commonname", "catchweight", "catchcount", "lengthsampleweight",
       "lengthsamplecount", "specimensamplecount" >>

\* str(field) for field in VARS: the characters of each field name
StrOf ==
    [ platformname |-> <<"p","l","a","t","f","o","r","m","n","a","m","e">>,
      callsignal |-> <<"c","a","l","l","s","i","g","n","a","l">>,
      serial |-> <<"s","e","r","i","a","l">>,
      stationstartdate |-> <<"s","t","a","t","i","o","n","s","t","a","r","t","d","a","t","e">>,
      stationstopdate |-> <<"s","t","a","t","i","o","n","s","t","o","p","d","a","t","e">>,
      latitudestart |-> <<"l","a","t","i","t","u","d","e","s","t","a","r","t">>,
      longitudestart |-> <<"l","o","n","g","i","t","u","d","e","s","t","a","r","t">>,
      area |-> <<"a","r","e","a">>,
      location |-> <<"l","o","c","a","t","i","o","n">>,
      fishingdepthmax |-> <<"f","i","s","h","i","n","g","d","e","p","t","h","m","a","x">>,
      fishingdepthmin |-> <<"f","i","s","h","i","n","g","d","e","p","t","h","m","i","n">>,
      gear |-> <<"g","e","a","r">>,
      gearcount |-> <<"g","e","a","r","c","o","u","n","t">>,
      soaktime |-> <<"s","o","a","k","t","i","m","e">>,
      stationcomment |-> <<"s","t","a","t","i","o","n","c","o","m","m","e","n","t">>,
      commonname |-> <<"c","o","m","m","o","n","n","a","m","e">>,
      catchweight |-> <<"c","a","t","c","h","w","e","i","g","h","t">>,
      catchcount |-> <<"c","a","t","c","h","c","o","u","n","t">>,
      lengthsampleweight |-> <<"l","e","n","g","t","h","s","a","m","p","l","e","w","e","i","g","h","t">>,
      lengthsamplecount |-> <<"l","e","n","g","t","h","s","a","m","p","l","e","c","o","u","n","t">>,
      specimensamplecount |-> <<"s","p","e","c","i","m","e","n","s","a","m","p","l","e","c","o","u","n","t">> ]

\* the members of the list VARS ("self.tag in VARS")
VarSet == { VARS[i] : i \in 1..Len(VARS) }

\* the keys popped after every catchsample close
PopVars ==
    << "catchweight", "catchcount", "lengthsamplecount", "lengthsampleweight",
       "specimensamplecount" >>

\* the five quantity fields, and the fields the claims call sample-scoped
Quantities ==
    { "catchweight", "catchcount", "lengthsamplecount", "lengthsampleweight",
      "specimensamplecount" }

SampleVars == {"commonname"} \cup Quantities

\* the literal inserted in place of missing values
NA == <<"N","A">>

\* Python's None, a value that is no dict over VARS
None == [None |-> TRUE]

(***************************************************************************)
(* Python string operations                                                *)
(***************************************************************************)
\* the characters str.strip() removes (those the inputs below can hold)
Whitespace == {" ", "\n", "\t", "\r"}

\* s.replace(a, b) for one-character a and a string b
RECURSIVE Replace(_, _, _)
Replace(s, a, b) ==
    IF s = <<>> THEN <<>>
    ELSE (IF Head(s) = a THEN b ELSE <<Head(s)>>) \o Replace(Tail(s), a, b)

RECURSIVE LStrip(_)
LStrip(s) ==
    IF s # <<>> /\ Head(s) \in Whitespace THEN LStrip(Tail(s)) ELSE s

RECURSIVE RStrip(_)
RStrip(s) ==
    IF s # <<>> /\ s[Len(s)] \in Whitespace THEN RStrip(SubSeq(s, 1, Len(s) - 1)) ELSE s

\* s.strip()
Strip(s) == RStrip(LStrip(s))

\* sep.join(parts)
RECURSIVE Join(_, _)
Join(parts, sep) ==
    IF parts = <<>> THEN <<>>
    ELSE IF Len(parts) = 1 THEN parts[1]
    ELSE parts[1] \o sep \o Join(Tail(parts), sep)

\* Normalize without the strip
Normalize_NoStrip(content) == Replace(content, "\n", <<>>)

\* content.replace("\n", "").strip()
Normalize(content) == Strip(Replace(content, "\n", <<>>))

\* '%s\n' % ';'.join([str(field) for field in VARS]).strip()
Header == Strip(Join([i \in 1..Len(VARS) |-> StrOf[VARS[i]]], <<";">>)) \o <<"\n">>

\* s.replace(old, new) for a string old that is not empty: every occurrence of
\* old, found from the left and not overlapping, becomes new
RECURSIVE ReplaceStr(_, _, _)
ReplaceStr(s, old, new) ==
    IF Len(s) < Len(old) THEN s
    ELSE IF SubSeq(s, 1, Len(old)) = old
    THEN new \o ReplaceStr(SubSeq(s, Len(old) + 1, Len(s)), old, new)
    ELSE <<Head(s)>> \o ReplaceStr(Tail(s), old, new)

\* os.path.basename(p): what follows the last "/" of p
Basename(p) ==
    LET slashes == { i \in 1..Len(p) : p[i] = "/" }
    IN  IF slashes = {} THEN p
        ELSE SubSeq(p, (CHOOSE i \in slashes : \A j \in slashes : j <= i) + 1, Len(p))

\* fnmatch of a name against a pattern that holds one "*" and no other wildcard
FnMatch(name, pattern) ==
    LET star == CHOOSE i \in 1..Len(pattern) : pattern[i] = "*"
        before == SubSeq(pattern, 1, star - 1)
        after == SubSeq(pattern, star + 1, Len(pattern))
    IN  /\ Len(name) >= Len(before) + Len(after)
        /\ SubSeq(name, 1, Len(before)) = before
        /\ SubSeq(name, Len(name) - Len(after) + 1, Len(name)) = after

\* the characters of the paths below, in the order of their code points
CodeOrder == <<".", "/", "1", "2", "3", "a", "b", "c", "d", "e", "i", "l", "m", "n", "o",
               "s", "t", "v", "w", "x">>

Code(c) == CHOOSE i \in 1..Len(CodeOrder) : CodeOrder[i] = c

\* s < t, as Python compares strings
Less(s, t) ==
    \E k \in 1..Len(t) :
       /\ \A i \in 1..(k - 1) : i <= Len(s) /\ s[i] = t[i]
       /\ k > Len(s) \/ Code(s[k]) < Code(t[k])

\* sorted(S) for a set S of strings
Sorted(S) ==
    [i \in 1..Cardinality(S) |->
        CHOOSE x \in S : Cardinality({ y \in S : Less(y, x) }) = i - 1]

\* glob.glob(dir + "/" + pattern), in a folder dir that holds the names of listing
Glob(dir, pattern, listing) ==
    { dir \o <<"/">> \o name : name \in { n \in listing : FnMatch(n, pattern) } }

(***************************************************************************)
(* dict operations                                                         *)
(***************************************************************************)
\* d[k] = v
Put(d, k, v) == [f \in DOMAIN d \cup {k} |-> IF f = k THEN v ELSE d[f]]

\* PopSample with the station comment among the keys popped
PopSample_Comment(d) ==
    [f \in DOMAIN d \ ({ PopVars[i] : i \in 1..Len(PopVars) } \cup {"stationcomment"}) |-> d[f]]

\* for var in PopVars: if var in d: d.pop(var)
PopSample(d) == [f \in DOMAIN d \ { PopVars[i] : i \in 1..Len(PopVars) } |-> d[f]]

\* FillNA with the empty string as the placeholder
FillNA_Empty(d) == [f \in DOMAIN d \cup VarSet |-> IF f \in DOMAIN d THEN d[f] ELSE <<>>]

\* for var in VARS: if var not in d: d[var] = "NA"
FillNA(d) == [f \in DOMAIN d \cup VarSet |-> IF f \in DOMAIN d THEN d[f] ELSE NA]

(***************************************************************************)
(* State                                                                   *)
(***************************************************************************)
VARIABLES
    parse,      \* self.parse: the gate
    data,       \* self.data: None or the record
    tag,        \* self.tag
    parent,     \* self.parent
    counter,    \* self.counter: <<hauls, catch items>>
    skipped,    \* self.skipped
    fob,        \* the strings written to self.fob, in order
    status,     \* "none" (no handler yet), "parsing", "closed" (endDocument ran) or the exception raised
    stack,      \* the parser's open elements, innermost last, with what was seen in each
    rootSeen,   \* the document element has been opened
    rows,       \* the list `output` of every row written, in order
    stationRow, \* a row was written under the fishstation element that is open
    touched,    \* a station field of the record was set since the last row was written
    closedSince, \* a mission closed with the gate open and no missiontypename text matched since
    cwd,        \* the working directory of the process
    path,       \* path: the folder searched
    files,      \* files: the sorted list of the paths matched
    idx,        \* the number of iterations of the loop over files begun
    file_in,    \* file_in: the name handed to parser.parse
    file_out,   \* file_out: the name handed to Biotic3, its self.filename
    opened,     \* the file parser.parse reads, as an absolute path
    pc,         \* "start", "loop", "exit" (no file found) or "finished"
    openOut     \* the output files that are open for writing

\* the variables of the main program that no handler touches
mainVars == << cwd, path, files, idx, file_in, file_out, opened, pc >>

vars == << parse, data, tag, parent, counter, skipped, fob, status, stack, rootSeen,
           rows, stationRow, touched, closedSince, cwd, path, files, idx, file_in,
           file_out, opened, pc, openOut >>


(***************************************************************************)
(* The parser (xml.sax, expat) reports the events of a well-formed         *)
(* document: one document element, elements closed innermost first, text   *)
(* inside the document element only.  `stack` is its list of open          *)
(* elements.  A set of documents is given by its shape: the pairs          *)
(* <<p, c>> such that an element c may open directly inside an element p,  *)
(* p = "" standing for the document itself.                                *)
(***************************************************************************)
\* the element t may open where the parser stands
CanOpen(shape, t) ==
    IF stack = <<>>
    THEN ~rootSeen /\ <<"", t>> \in shape
    ELSE <<stack[Len(stack)].tag, t>> \in shape

\* the innermost open element
Top == stack[Len(stack)].tag

\* some open element has the tag t
IsOpen(t) == \E i \in 1..Len(stack) : stack[i].tag = t

\* the open elements with the innermost element of tag t marked in field k
Mark(t, k) ==
    IF IsOpen(t)
    THEN LET i == CHOOSE j \in 1..Len(stack) :
                     /\ stack[j].tag = t
                     /\ \A m \in (j+1)..Len(stack) : stack[m].tag # t
         IN  [stack EXCEPT ![i] = [@ EXCEPT ![k] = TRUE]]
    ELSE stack

(***************************************************************************)
(* The file system: two folders, and the names a folder may hold           *)
(***************************************************************************)
DirA == <<"/","a">>
DirB == <<"/","b">>
Dirs == {DirA, DirB}

Biotic1 == <<"b","i","o","t","i","c","1",".","x","m","l">>
Biotic2 == <<"b","i","o","t","i","c","2",".","x","m","l">>
BioticXmlXml == <<"b","i","o","t","i","c",".","x","m","l",".","x","m","l">>
Notes == <<"n","o","t","e","s",".","x","m","l">>
Names == {Biotic1, Biotic2, BioticXmlXml, Notes}

\* the extensions of line 160
DotXml == <<".","x","m","l">>
DotCsv == <<".","c","s","v">>

(***************************************************************************)
(* Biotic3.__init__, for the one file /a/biotic1.xml of the folder /a,     *)
(* which is the working directory too                                      *)
(***************************************************************************)
Init ==
    /\ cwd = DirA
    /\ path = DirA
    /\ files = Sorted(Glob(DirA, NAME_PATTERN, {Biotic1}))
    /\ idx = 1
    /\ file_in = Basename(files[1])
    /\ file_out = ReplaceStr(files[1], DotXml, DotCsv)
    /\ opened = cwd \o <<"/">> \o file_in
    /\ pc = "loop"
    /\ openOut = {file_out}
    /\ parse = FALSE
    /\ data = None
    /\ tag = ""
    /\ parent = ""
    /\ counter = <<0, 0>>
    /\ skipped = 0
    /\ fob = <<Header>>
    /\ status = "parsing"
    /\ stack = <<>>
    /\ rootSeen = FALSE
    /\ rows = <<>>
    /\ stationRow = FALSE
    /\ touched = FALSE
    /\ closedSince = FALSE

(***************************************************************************)
(* Biotic3.append2csv: the record, the skip counter, the strings written   *)
(* and the list `output` it leaves, and the value it returns               *)
(***************************************************************************)
\* Complete as the comment of lines 29-30 words it: "either count or weight"
Complete_CountOrWeight(d) ==
    /\ "serial" \in DOMAIN d
    /\ "commonname" \in DOMAIN d
    /\ \/ "catchweight" \in DOMAIN d
       \/ "catchcount" \in DOMAIN d

\* the condition of the if of line 118
Complete(d) ==
    /\ "serial" \in DOMAIN d
    /\ "commonname" \in DOMAIN d
    /\ \/ "catchweight" \in DOMAIN d
       \/ "catchcount" \in DOMAIN d
       \/ "lengthsamplecount" \in DOMAIN d
       \/ "lengthsampleweight" \in DOMAIN d
       \/ "specimensamplecount" \in DOMAIN d

\* self.data["stationcomment"].replace(";", ":")
Sanitize(s) == Replace(s, ";", <<":">>)

\* Prepared with every value sanitized, not the station comment alone
Prepared_AllSanitized(d) ==
    LET filled == FillNA(d)
    IN  [f \in DOMAIN filled |-> Sanitize(filled[f])]

\* the record once the missing values are filled in and the comment is sanitized
Prepared(d) ==
    LET filled == FillNA(d)
    IN  [filled EXCEPT !["stationcomment"] = Sanitize(@)]

\* output: the values of the record in the order of VARS
Output(d) == [i \in 1..Len(VARS) |-> d[VARS[i]]]

\* ';'.join([str(field) for field in output]).strip() + "\n"
Line(output) == Strip(Join(output, <<";">>)) \o <<"\n">>

\* append2csv that fills in and sanitizes a copy, and leaves the record as it was
append2csv_Copy(d, skp) ==
    IF Complete(d)
    THEN LET p == Prepared(d)
         IN  [data |-> d, skipped |-> skp, written |-> <<Line(Output(p))>>,
              output |-> <<Output(p)>>, ret |-> 1]
    ELSE [data |-> d, skipped |-> skp + 1, written |-> <<>>, output |-> <<>>, ret |-> 0]

append2csv(d, skp) ==
    IF Complete(d)
    THEN LET p == Prepared(d)
         IN  [data |-> p, skipped |-> skp, written |-> <<Line(Output(p))>>,
              output |-> <<Output(p)>>, ret |-> 1]
    ELSE [data |-> d, skipped |-> skp + 1, written |-> <<>>, output |-> <<>>, ret |-> 0]

(***************************************************************************)
(* Biotic3.startElement                                                    *)
(***************************************************************************)
startElement(t, attributes) ==
    /\ status = "parsing"
    /\ parent' = tag
    /\ tag' = t
    /\ IF parse = TRUE /\ t = "fishstation"
       THEN IF data # None /\ "serialnumber" \in DOMAIN attributes
            THEN /\ data' = Put(data, "serial", attributes["serialnumber"])
                 /\ counter' = [counter EXCEPT ![1] = @ + 1]
                 /\ status' = status
                 /\ touched' = TRUE
            ELSE \* attributes["serialnumber"] raises KeyError, or else the assignment
                 \* to an item of None raises TypeError; nothing catches either
                 /\ status' = IF "serialnumber" \notin DOMAIN attributes
                              THEN "KeyError" ELSE "TypeError"
                 /\ UNCHANGED <<data, counter, touched>>
       ELSE UNCHANGED <<data, counter, status, touched>>
    /\ stack' = Append(stack, [tag |-> t, match |-> FALSE, named |-> FALSE])
    /\ rootSeen' = TRUE
    /\ stationRow' = IF t = "fishstation" THEN FALSE ELSE stationRow
    /\ UNCHANGED <<parse, skipped, fob, rows, closedSince, mainVars, openOut>>

(***************************************************************************)
(* Biotic3.endElement; the parser closes the innermost open element        *)
(***************************************************************************)
endElement ==
    /\ status = "parsing"
    /\ stack # <<>>
    /\ IF parse = TRUE
       THEN /\ IF Top = "catchsample" /\ data = None
               THEN \* "serial" in None raises TypeError, which nothing catches
                    /\ status' = "TypeError"
                    /\ UNCHANGED <<parse, data, counter, skipped, fob, rows, stationRow,
                                   touched, closedSince>>
               ELSE IF Top = "catchsample"
               THEN LET r == append2csv(data, skipped)
                    IN  /\ counter' = [counter EXCEPT ![2] = @ + r.ret]
                        /\ skipped' = r.skipped
                        /\ fob' = fob \o r.written
                        /\ data' = PopSample(r.data)
                        /\ rows' = rows \o r.output
                        /\ stationRow' = IF r.ret = 1 THEN IsOpen("fishstation") ELSE stationRow
                        /\ touched' = IF r.ret = 1 THEN FALSE ELSE touched
                        /\ UNCHANGED <<parse, status, closedSince>>
               ELSE IF Top = "mission"
               THEN /\ data' = None
                    /\ parse' = FALSE
                    /\ closedSince' = TRUE
                    /\ UNCHANGED <<counter, skipped, fob, status, rows, stationRow, touched>>
               ELSE /\ stationRow' = IF Top = "fishstation" THEN FALSE ELSE stationRow
                    /\ UNCHANGED <<parse, data, counter, skipped, fob, status, rows,
                                   touched, closedSince>>
            /\ tag' = IF status' = "parsing" THEN "" ELSE tag
       ELSE /\ stationRow' = IF Top = "fishstation" THEN FALSE ELSE stationRow
            /\ UNCHANGED <<parse, data, tag, counter, skipped, fob, status, rows, touched,
                           closedSince>>
    /\ stack' = SubSeq(stack, 1, Len(stack) - 1)
    /\ UNCHANGED <<parent, rootSeen, mainVars, openOut>>

(***************************************************************************)
(* Biotic3.characters; text is reported inside the document element only   *)
(***************************************************************************)
\* the text is stored in the record
Captures == parse = TRUE /\ data # None /\ tag \in VarSet

\* the text opens the gate
Matches(content) == tag = "missiontypename" /\ content = MISSIONTYPENAME

\* characters that keeps the record it has when the target name is read again
characters_KeepRecord(raw) ==
    /\ status = "parsing"
    /\ stack # <<>>
    /\ LET content == Normalize(raw)
           stored == IF Captures THEN Put(data, tag, content) ELSE data
       IN  /\ parse' = IF Matches(content) THEN TRUE ELSE parse
           /\ data' = IF Matches(content)
                      THEN (IF data = None THEN <<>> ELSE data)
                      ELSE stored
           /\ stack' = IF Top = "missiontypename" /\ content = MISSIONTYPENAME
                       THEN Mark("mission", "match")
                       ELSE IF Top = "commonname" THEN Mark("catchsample", "named")
                       ELSE stack
           /\ closedSince' = IF Top = "missiontypename" /\ content = MISSIONTYPENAME
                             THEN FALSE ELSE closedSince
           /\ touched' = IF ~Matches(content) /\ Captures /\ tag \notin SampleVars
                         THEN TRUE ELSE touched
    /\ UNCHANGED <<tag, parent, counter, skipped, fob, status, rootSeen, rows, stationRow,
                   mainVars, openOut>>

characters(raw) ==
    /\ status = "parsing"
    /\ stack # <<>>
    /\ LET content == Normalize(raw)
           stored == IF Captures THEN Put(data, tag, content) ELSE data
       IN  /\ parse' = IF Matches(content) THEN TRUE ELSE parse
           /\ data' = IF Matches(content) THEN <<>> ELSE stored
           /\ stack' = IF Top = "missiontypename" /\ content = MISSIONTYPENAME
                       THEN Mark("mission", "match")
                       ELSE IF Top = "commonname" THEN Mark("catchsample", "named")
                       ELSE stack
           /\ closedSince' = IF Top = "missiontypename" /\ content = MISSIONTYPENAME
                             THEN FALSE ELSE closedSince
           /\ touched' = IF ~Matches(content) /\ Captures /\ tag \notin SampleVars
                         THEN TRUE ELSE touched
    /\ UNCHANGED <<tag, parent, counter, skipped, fob, status, rootSeen, rows, stationRow,
                   mainVars, openOut>>

(***************************************************************************)
(* Biotic3.endDocument                                                     *)
(***************************************************************************)
\* endDocument without self.fob.close()
endDocument_NoClose ==
    /\ status = "parsing"
    /\ stack = <<>>
    /\ rootSeen
    /\ status' = "closed"
    /\ UNCHANGED <<parse, data, tag, parent, counter, skipped, fob, stack, rootSeen,
                   rows, stationRow, touched, closedSince, mainVars, openOut>>

endDocument ==
    /\ status = "parsing"
    /\ stack = <<>>
    /\ rootSeen
    /\ status' = "closed"
    /\ openOut' = openOut \ {file_out}
    /\ UNCHANGED <<parse, data, tag, parent, counter, skipped, fob, stack, rootSeen,
                   rows, stationRow, touched, closedSince, mainVars>>

(***************************************************************************)
(* The main program, from the list `files` on (lines 151-168)              *)
(***************************************************************************)
\* if len(files) == 0: print(...); exit()
NoFiles ==
    /\ pc = "start"
    /\ files = <<>>
    /\ pc' = "exit"
    /\ UNCHANGED <<parse, data, tag, parent, counter, skipped, fob, status, stack,
                   rootSeen, rows, stationRow, touched, closedSince, cwd, path, files,
                   idx, file_in, file_out, opened, openOut>>

\* one iteration of the loop over files, up to the first event of parser.parse:
\* the names are derived, Biotic3 is constructed and its output opened, and the
\* parser opens file_in, which names a file of the working directory; found
\* tells whether a folder other than the one searched holds that name
ProcessFile(found) ==
    /\ pc \in {"start", "loop"}
    /\ idx < Len(files)
    /\ idx > 0 => status = "closed"
    /\ cwd = path => found
    /\ LET file == files[idx + 1]
       IN  /\ file_in' = Basename(file)
           /\ file_out' = ReplaceStr(file, DotXml, DotCsv)
    /\ idx' = idx + 1
    /\ pc' = "loop"
    /\ parse' = FALSE
    /\ data' = None
    /\ tag' = ""
    /\ parent' = ""
    /\ counter' = <<0, 0>>
    /\ skipped' = 0
    /\ fob' = <<Header>>
    /\ openOut' = openOut \cup {file_out'}
    /\ stack' = <<>>
    /\ rootSeen' = FALSE
    /\ rows' = <<>>
    /\ stationRow' = FALSE
    /\ touched' = FALSE
    /\ closedSince' = FALSE
    /\ opened' = cwd \o <<"/">> \o file_in'
    \* a name that is no file is taken for a URL, and urlopen raises ValueError
    /\ status' = IF found THEN "parsing" ELSE "ValueError"
    /\ UNCHANGED <<cwd, path, files>>

\* print("Finished!")
Finished ==
    /\ pc = "loop"
    /\ idx = Len(files)
    /\ status = "closed"
    /\ pc' = "finished"
    /\ UNCHANGED <<parse, data, tag, parent, counter, skipped, fob, status, stack,
                   rootSeen, rows, stationRow, touched, closedSince, cwd, path, files,
                   idx, file_in, file_out, opened, openOut>>

(***************************************************************************)
(* The events of the documents of a shape, with the attribute lists and    *)
(* the texts they may carry, up to maxSt fishstation elements opened and   *)
(* maxSa catchsample elements closed while the gate is open                *)
(***************************************************************************)
Opens(shape, attrs, maxSt) ==
    \E p \in shape : \E attributes \in attrs :
       /\ CanOpen(shape, p[2])
       /\ (parse = TRUE /\ p[2] = "fishstation") => counter[1] < maxSt
       /\ startElement(p[2], attributes)

Closes(maxSa) ==
    /\ (parse = TRUE /\ stack # <<>> /\ Top = "catchsample") => counter[2] + skipped < maxSa
    /\ endElement

Reads(texts) == \E raw \in texts : characters(raw)

\* the elements c directly inside an element p
Under(p, cs) == { <<p, c>> : c \in cs }

\* the attribute lists of an element: none, or a serialnumber
NoAttributes == <<>>
Serial42 == [serialnumber |-> <<"4", "2">>]

\* a text that normalization changes and that holds the delimiter twice
TextSemi == <<" ", ";", "c", ";", "\n">>

(***************************************************************************)
(* Spec: documents with several missions, and with missiontypename,        *)
(* fishstation and catchsample elements inside and outside a mission       *)
(***************************************************************************)
MaxStations == 1
MaxSamples == 2

Shape ==
    Under("", {"missions"})
    \cup Under("missions", {"mission", "missiontypename", "fishstation"})
    \cup Under("mission", {"missiontypename", "fishstation"})
    \cup Under("fishstation", {"catchsample"})
    \cup Under("catchsample", {"commonname", "catchcount"})

Next ==
    \/ Opens(Shape, {NoAttributes, Serial42}, MaxStations)
    \/ Closes(MaxSamples)
    \/ Reads({MISSIONTYPENAME, TextSemi})
    \/ endDocument

Spec == Init /\ [][Next]_vars

(***************************************************************************)
(* SpecQuantities: one mission whose catch-samples, inside and outside a   *)
(* fishstation, hold any of the species name and the five quantities, at   *)
(* most MaxQuantitiesQ quantities in the record at a time                  *)
(***************************************************************************)
MaxStationsQ == 1
MaxSamplesQ == 1
MaxQuantitiesQ == 1

ShapeQuantities ==
    Under("", {"mission"})
    \cup Under("mission", {"missiontypename", "fishstation", "catchsample"})
    \cup Under("fishstation", {"catchsample"})
    \cup Under("catchsample", {"commonname"} \cup Quantities)

NextQuantities ==
    \/ Opens(ShapeQuantities, {Serial42}, MaxStationsQ)
    \/ Closes(MaxSamplesQ)
    \/ /\ Reads({MISSIONTYPENAME})
       /\ Cardinality(DOMAIN data' \cap Quantities) <= MaxQuantitiesQ
    \/ endDocument

SpecQuantities == Init /\ [][NextQuantities]_vars

(***************************************************************************)
(* SpecRows: one mission whose stations hold a comment and catch-samples,  *)
(* with texts that hold the delimiter                                      *)
(***************************************************************************)
MaxStationsR == 1
MaxSamplesR == 1

ShapeRows ==
    Under("", {"mission"})
    \cup Under("mission", {"missiontypename", "fishstation"})
    \cup Under("fishstation", {"stationcomment", "catchsample"})
    \cup Under("catchsample", {"commonname", "catchcount"})

NextRows ==
    \/ Opens(ShapeRows, {Serial42}, MaxStationsR)
    \/ Closes(MaxSamplesR)
    \/ Reads({MISSIONTYPENAME, TextSemi})
    \/ endDocument

SpecRows == Init /\ [][NextRows]_vars

(***************************************************************************)
(* SpecStations: one mission whose stations, of two serial numbers, hold   *)
(* station fields before, between and after their catch-samples            *)
(***************************************************************************)
MaxStationsS == 1
MaxSamplesS == 2

Serial7 == [serialnumber |-> <<"7">>]

ShapeStations ==
    Under("", {"mission"})
    \cup Under("mission", {"missiontypename", "fishstation"})
    \cup Under("fishstation", {"platformname", "stationcomment", "catchsample"})
    \cup Under("catchsample", {"commonname", "catchcount"})

NextStations ==
    \/ Opens(ShapeStations, {Serial42, Serial7}, MaxStationsS)
    \/ Closes(MaxSamplesS)
    \/ Reads({MISSIONTYPENAME})
    \/ endDocument

SpecStations == Init /\ [][NextStations]_vars

(***************************************************************************)
(* SpecMain: the program run in either folder over either folder, which    *)
(* holds at most MaxFiles names; every file is a document of one mission   *)
(***************************************************************************)
MaxFiles == 2
MaxStationsM == 1
MaxSamplesM == 1

ShapeMain ==
    Under("", {"mission"})
    \cup Under("mission", {"missiontypename", "fishstation"})
    \cup Under("fishstation", {"catchsample"})
    \cup Under("catchsample", {"commonname", "catchcount"})

\* the state once `files` is computed (lines 142-149); no handler exists yet
InitMain ==
    /\ cwd \in Dirs
    /\ path \in Dirs
    /\ \E listing \in SUBSET Names :
          /\ Cardinality(listing) <= MaxFiles
          /\ files = Sorted(Glob(path, NAME_PATTERN, listing))
    /\ idx = 0
    /\ file_in = <<>>
    /\ file_out = <<>>
    /\ opened = <<>>
    /\ pc = "start"
    /\ openOut = {}
    /\ parse = FALSE
    /\ data = None
    /\ tag = ""
    /\ parent = ""
    /\ counter = <<0, 0>>
    /\ skipped = 0
    /\ fob = <<>>
    /\ status = "none"
    /\ stack = <<>>
    /\ rootSeen = FALSE
    /\ rows = <<>>
    /\ stationRow = FALSE
    /\ touched = FALSE
    /\ closedSince = FALSE

NextMain ==
    \/ NoFiles
    \/ \E found \in BOOLEAN : ProcessFile(found)
    \/ Finished
    \/ Opens(ShapeMain, {Serial42}, MaxStationsM)
    \/ Closes(MaxSamplesM)
    \/ Reads({MISSIONTYPENAME})
    \/ endDocument

SpecMain == InitMain /\ [][NextMain]_vars

(***************************************************************************)
(* SpecTexts: one mission whose elements hold texts that normalization     *)
(* changes, one of them made of whitespace alone                           *)
(***************************************************************************)
MaxStationsT == 1
MaxSamplesT == 1

\* a text of whitespace alone, and a text with whitespace around a word
TextBlank == <<" ", "\n", " ">>
TextCod == <<"\n", " ", "c", "o", "d", " ", "\n">>

TextsOfTexts == {MISSIONTYPENAME, TextBlank, TextCod}

ShapeTexts ==
    Under("", {"mission"})
    \cup Under("mission", {"missiontypename", "fishstation"})
    \cup Under("fishstation", {"catchsample"})
    \cup Under("catchsample", {"commonname", "catchcount"})

NextTexts ==
    \/ Opens(ShapeTexts, {Serial42}, MaxStationsT)
    \/ Closes(MaxSamplesT)
    \/ Reads(TextsOfTexts)
    \/ endDocument

SpecTexts == Init /\ [][NextTexts]_vars

(***************************************************************************)
(* What the claims speak of                                                *)
(***************************************************************************)
\* this step is the close of an element of tag t while the gate is open
ClosesInGate(t) ==
    /\ parse = TRUE
    /\ stack # <<>>
    /\ Top = t
    /\ Len(stack') < Len(stack)

\* this step writes a row
WritesRow == Len(fob') > Len(fob)

\* an open mission element holds a missiontypename text equal to the target
InTargetMission ==
    \E i \in 1..Len(stack) : stack[i].tag = "mission" /\ stack[i].match

\* the number of occurrences of the character c in the string s
Count(s, c) == Cardinality({ i \in 1..Len(s) : s[i] = c })

(***************************************************************************)
(* C1. Gating: a row is written at a catchsample close only if that        *)
(* catchsample is nested inside a mission element whose missiontypename    *)
(* text equals the target name.                                            *)
(***************************************************************************)
C1_Gating == [][WritesRow => InTargetMission]_vars

C3_UnnamedSampleSkipped ==
    [][(ClosesInGate("catchsample") /\ ~stack[Len(stack)].named)
          => (fob' = fob /\ skipped' = skipped + 1)]_vars

(***************************************************************************)
(* C4. Sample-scoped reset: after every catchsample close processed while  *)
(* the gate is open, none of commonname, catchweight, catchcount,          *)
(* lengthsamplecount, lengthsampleweight, specimensamplecount is in the    *)
(* record.                                                                 *)
(***************************************************************************)
C4_SampleScopedReset ==
    [][ClosesInGate("catchsample") => \A f \in SampleVars : f \notin DOMAIN data']_vars

(***************************************************************************)
(* C5. Missing-field fill.  The claim as made: every written row holds one *)
(* value per field of VARS, in the order of VARS, the record's value if    *)
(* the field was in the record when the catchsample closed and NA if not.  *)
(***************************************************************************)
C5_FillAsClaimed ==
    [][(ClosesInGate("catchsample") /\ WritesRow) =>
          LET row == rows'[Len(rows')]
          IN  /\ Len(row) = Len(VARS)
              /\ \A i \in 1..Len(VARS) :
                    row[i] = IF VARS[i] \in DOMAIN data THEN data[VARS[i]] ELSE NA]_vars

\* s with every semicolon turned into a colon
Colons(s) == [i \in 1..Len(s) |-> IF s[i] = ";" THEN ":" ELSE s[i]]

(***************************************************************************)
(* C5, amended: every written row holds one value per field of VARS, in    *)
(* the order of VARS: NA if the field was not in the record when the       *)
(* catchsample closed, else the record's value, which for stationcomment   *)
(* has its semicolons replaced by colons.                                  *)
(***************************************************************************)
C5_MissingFieldFill ==
    [][(ClosesInGate("catchsample") /\ WritesRow) =>
          LET row == rows'[Len(rows')]
          IN  /\ Len(row) = Len(VARS)
              /\ \A i \in 1..Len(VARS) :
                    row[i] = IF VARS[i] \notin DOMAIN data THEN NA
                             ELSE IF VARS[i] = "stationcomment" THEN Colons(data[VARS[i]])
                             ELSE data[VARS[i]]]_vars

\* a row with a filled-in field, a field of the record and a comment that held a semicolon
C5_Witness ==
    /\ Len(rows) = 1
    /\ rows[1][1] = NA
    /\ rows[1][3] = <<"4", "2">>
    /\ rows[1][15] = <<":", "c", ":">>

(***************************************************************************)
(* C6. Delimiter safety: no value of a written row holds a semicolon, so   *)
(* every written line splits on ';' into exactly len(VARS) fields.         *)
(***************************************************************************)
C6_DelimiterSafety ==
    /\ \A i \in 1..Len(rows) : \A j \in 1..Len(rows[i]) : Count(rows[i][j], ";") = 0
    /\ \A i \in 1..Len(fob) : Count(fob[i], ";") + 1 = Len(VARS)

(***************************************************************************)
(* C7. Sanitization: the line written for a row is the values of the       *)
(* fields of VARS joined by semicolons, where the stationcomment value is  *)
(* the record's with every semicolon replaced by a colon and every other   *)
(* value is the record's, unaltered, or NA.                                *)
(***************************************************************************)
C7_Sanitization ==
    [][(ClosesInGate("catchsample") /\ WritesRow) =>
          LET value(f) == IF f \notin DOMAIN data THEN NA
                          ELSE IF f = "stationcomment" THEN Colons(data[f])
                          ELSE data[f]
          IN  fob'[Len(fob')] =
                 Join([i \in 1..Len(VARS) |-> value(VARS[i])], <<";">>) \o <<"\n">>]_vars

\* a line whose comment held two semicolons and whose species name still holds two
C7_Witness ==
    /\ Len(fob) = 2
    /\ Count(fob[2], ":") = 2
    /\ Count(fob[2], ";") = Len(VARS) + 1

\* the station-scoped fields
StationVars ==
    { "platformname", "callsignal", "serial", "stationstartdate", "stationstopdate",
      "latitudestart", "longitudestart", "area", "location", "fishingdepthmax",
      "fishingdepthmin", "gear", "gearcount", "soaktime", "stationcomment" }

\* the row this step writes and the row written before it agree on the station-scoped fields
SameStationValues ==
    \A i \in 1..Len(VARS) :
       VARS[i] \in StationVars => rows'[Len(rows')][i] = rows[Len(rows)][i]

(***************************************************************************)
(* C8. Station reuse.  The claim as made: two consecutive rows written     *)
(* under the same fishstation carry identical values in every              *)
(* station-scoped field.                                                   *)
(***************************************************************************)
C8_ReuseAsClaimed ==
    [][(ClosesInGate("catchsample") /\ WritesRow /\ stationRow) => SameStationValues]_vars

(***************************************************************************)
(* C8, amended: two consecutive rows written under the same fishstation    *)
(* carry identical values in every station-scoped field, provided no text  *)
(* is stored in a station-scoped field of the record between the two       *)
(* catchsample closes.                                                     *)
(***************************************************************************)
C8_StationReuse ==
    [][(ClosesInGate("catchsample") /\ WritesRow /\ stationRow /\ ~touched)
          => SameStationValues]_vars

\* two rows of one station that carry the comment and the platform name given once
C8_Witness ==
    /\ counter[1] = 1
    /\ Len(rows) = 2
    /\ stationRow
    /\ \A i \in {1, 15} : rows[1][i] = MISSIONTYPENAME /\ rows[2][i] = MISSIONTYPENAME

(***************************************************************************)
(* C9. Reset on mission end: a mission close while the gate is open leaves *)
(* the gate false and the record absent, and from then on no row is        *)
(* written until a text under a missiontypename element equals the target  *)
(* name again.                                                             *)
(***************************************************************************)
C9_ResetOnMissionEnd ==
    [][ /\ ClosesInGate("mission") => (parse' = FALSE /\ data' = None)
        /\ closedSince => ~WritesRow ]_vars

(***************************************************************************)
(* C10. A fishstation element that opens while the gate is open and        *)
(* carries no serialnumber attribute does not end the run with an error.   *)
(***************************************************************************)
C10_MissingSerialNotFatal == status # "KeyError"

(***************************************************************************)
(* C11. Input selection: the file the parser reads is the matched path     *)
(* itself, whatever the working directory is, so that the rows written to  *)
(* the output derived from a path are extracted from the file of that      *)
(* path.                                                                   *)
(***************************************************************************)
C11_InputSelection ==
    idx > 0 => /\ opened = files[idx]
               /\ status # "ValueError"

(***************************************************************************)
(* C12. Output path: the output path is the input path with its trailing   *)
(* ".xml" replaced by ".csv", or with ".csv" appended when it does not end *)
(* in ".xml"; it never equals the input path, and no other ".xml" inside   *)
(* the path is changed.                                                    *)
(***************************************************************************)
\* s.endswith(suffix)
EndsWith(s, suffix) ==
    /\ Len(s) >= Len(suffix)
    /\ SubSeq(s, Len(s) - Len(suffix) + 1, Len(s)) = suffix

C12_OutputPath ==
    idx > 0 =>
       LET file == files[idx]
       IN  /\ file_out # file
           /\ file_out = IF EndsWith(file, DotXml)
                         THEN SubSeq(file, 1, Len(file) - Len(DotXml)) \o DotCsv
                         ELSE file \o DotCsv

(***************************************************************************)
(* C13. Per-file isolation and ordering: the files are processed one at a  *)
(* time in sorted order; an iteration starts with every earlier output     *)
(* closed, opens its own output, writes the header to it before any row    *)
(* and starts with the gate false, the record absent and the counters      *)
(* zero; within a file the output only grows, by one row at a time, and    *)
(* the end of the document closes it.                                      *)
(***************************************************************************)
C13_PerFileIsolation ==
    [][ /\ idx' # idx =>
              /\ idx' = idx + 1
              /\ \A j \in 1..Len(files) :
                    j # idx' => (j < idx' <=> Less(files[j], files[idx']))
              /\ openOut = {}
              /\ openOut' = {file_out'}
              /\ fob' = <<Header>>
              /\ parse' = FALSE
              /\ data' = None
              /\ counter' = <<0, 0>>
              /\ skipped' = 0
        /\ (idx' = idx /\ idx > 0) =>
              /\ Len(fob') \in {Len(fob), Len(fob) + 1}
              /\ SubSeq(fob', 1, Len(fob)) = fob
              /\ fob'[1] = Header
              /\ Len(fob') = 1 + counter'[2]
        /\ (status = "parsing" /\ status' = "closed") => openOut' = {}
        /\ Cardinality(openOut') <= 1 ]_vars

\* the second file of two is at its end, after a row from each
C13_Witness ==
    /\ idx = 2
    /\ status = "closed"
    /\ openOut = {}
    /\ Len(fob) = 2
    /\ pc = "finished"

(***************************************************************************)
(* C14. Gate/record invariant: the record is present exactly when the gate *)
(* is true; the gate becomes true only by a text read while the current    *)
(* tag is missiontypename whose normalized value is the target name; and   *)
(* every such text leaves the gate true and the record empty, also when    *)
(* the gate was open and the record held fields.                           *)
(***************************************************************************)
\* the texts read in Spec
TextsOfSpec == {MISSIONTYPENAME, TextSemi}

C14_GateRecord ==
    [][ /\ (parse = TRUE) <=> (data # None)
        /\ (parse' = TRUE) <=> (data' # None)
        /\ (parse = FALSE /\ parse' = TRUE) =>
              /\ tag = "missiontypename"
              /\ \E raw \in TextsOfSpec :
                    Normalize(raw) = MISSIONTYPENAME /\ characters(raw)
        /\ \A raw \in TextsOfSpec :
              (/\ tag = "missiontypename"
               /\ Normalize(raw) = MISSIONTYPENAME
               /\ characters(raw)) => (parse' = TRUE /\ data' = <<>>) ]_vars

\* the target name was read again after a station of the first mission, and
\* took the station's fields out of the record
C14_Witness ==
    /\ parse = TRUE
    /\ data = <<>>
    /\ counter[1] = 1
    /\ tag = "missiontypename"

(***************************************************************************)
(* C15. The close of an element clears the current tag whether the gate is *)
(* open or closed, so that the text that follows a closed element is read  *)
(* under no tag.                                                           *)
(***************************************************************************)
C15_CloseClearsTag == [][Len(stack') < Len(stack) => tag' = ""]_vars

(***************************************************************************)
(* C16. Frame of the catchsample close.  The claim as made: a catchsample  *)
(* close while the gate is open, accepted or skipped, leaves every         *)
(* station-scoped field of the record as present and with the value it had *)
(* before the close.                                                       *)
(***************************************************************************)
C16_FrameAsClaimed ==
    [][ClosesInGate("catchsample") =>
          \A f \in StationVars :
             /\ f \in DOMAIN data' <=> f \in DOMAIN data
             /\ f \in DOMAIN data => data'[f] = data[f]]_vars

(***************************************************************************)
(* C16, amended: a skipped catchsample close leaves every station-scoped   *)
(* field of the record as it was; an accepted one leaves every             *)
(* station-scoped field present, with the value it had, the semicolons of  *)
(* stationcomment turned into colons, or with NA if it was absent.         *)
(***************************************************************************)
C16_SampleCloseFrame ==
    [][ClosesInGate("catchsample") =>
          \A f \in StationVars :
             IF WritesRow
             THEN /\ f \in DOMAIN data'
                  /\ data'[f] = IF f \notin DOMAIN data THEN NA
                                ELSE IF f = "stationcomment" THEN Colons(data[f])
                                ELSE data[f]
             ELSE /\ f \in DOMAIN data' <=> f \in DOMAIN data
                  /\ f \in DOMAIN data => data'[f] = data[f]]_vars

\* after an accepted close the record holds NA for a field that was never read,
\* the sanitized comment, and no quantity
C16_Witness ==
    /\ Len(rows) = 1
    /\ data # None
    /\ "platformname" \in DOMAIN data
    /\ data["platformname"] = NA
    /\ data["stationcomment"] = <<":", "c", ":">>
    /\ "catchcount" \notin DOMAIN data

(***************************************************************************)
(* C17. Frame of the element open: the open of an element changes the      *)
(* parent tag and the current tag only, except that the open of a          *)
(* fishstation while the gate is open also sets serial in the record,      *)
(* removing and changing no other field, and adds one to the station       *)
(* counter; the open of a fishstation while the gate is closed changes     *)
(* neither the record nor the counters.                                    *)
(***************************************************************************)
C17_OpenFrame ==
    [][Len(stack') > Len(stack) =>
          /\ parse' = parse
          /\ skipped' = skipped
          /\ fob' = fob
          /\ status' = status
          /\ counter'[2] = counter[2]
          /\ IF parse = TRUE /\ stack'[Len(stack')].tag = "fishstation"
             THEN /\ DOMAIN data' = DOMAIN data \cup {"serial"}
                  /\ \A f \in DOMAIN data \ {"serial"} : data'[f] = data[f]
                  /\ counter'[1] = counter[1] + 1
             ELSE /\ data' = data
                  /\ counter'[1] = counter[1]]_vars

(***************************************************************************)
(* C19. Counter consistency: the accepted and the skipped counter together *)
(* count the catchsample closes seen while the gate was open, the accepted *)
(* counter counts the rows written, the station counter counts the         *)
(* fishstation opens seen while the gate was open, and no counter ever     *)
(* decreases.                                                              *)
(***************************************************************************)
C19_CounterConsistency ==
    [][ /\ counter'[2] + skipped' =
              counter[2] + skipped + (IF ClosesInGate("catchsample") THEN 1 ELSE 0)
        /\ Len(rows') = counter'[2]
        /\ Len(fob') = 1 + counter'[2]
        /\ counter'[1] =
              counter[1] + (IF /\ parse = TRUE
                               /\ Len(stack') > Len(stack)
                               /\ stack'[Len(stack')].tag = "fishstation"
                            THEN 1 ELSE 0)
        /\ counter'[1] >= counter[1]
        /\ counter'[2] >= counter[2]
        /\ skipped' >= skipped ]_vars

(***************************************************************************)
(* C18. Text capture.  The claim as made: a text changes the fields of the *)
(* record only when the gate is open, the record is present and the        *)
(* current tag is a field of VARS, and then sets that field to the         *)
(* normalized text; in every other case the fields of the record are       *)
(* unchanged.                                                              *)
(***************************************************************************)
\* the text without its newlines and without the whitespace at its ends
Stripped(raw) ==
    LET s == SelectSeq(raw, LAMBDA c : c # "\n")
        inked == { i \in 1..Len(s) : s[i] \notin {" ", "\t", "\r"} }
    IN  IF inked = {} THEN <<>>
        ELSE SubSeq(s, CHOOSE i \in inked : \A j \in inked : i <= j,
                       CHOOSE i \in inked : \A j \in inked : j <= i)

\* the fields of a record, none when the record is absent
Fields(d) == IF d = None THEN <<>> ELSE d

\* the record d with the field f set to the value v
With(d, f, v) == [g \in DOMAIN d \cup {f} |-> IF g = f THEN v ELSE d[g]]

C18_CaptureAsClaimed ==
    [][\A raw \in TextsOfTexts :
          characters(raw) =>
             Fields(data') = IF parse = TRUE /\ data # None /\ tag \in VarSet
                             THEN With(data, tag, Stripped(raw))
                             ELSE Fields(data)]_vars

(***************************************************************************)
(* C18, amended: a text read while the current tag is missiontypename      *)
(* whose normalized value is the target name replaces the record by the    *)
(* empty record; any other text read while the gate is open, the record    *)
(* present and the current tag a field of VARS sets that field to the      *)
(* normalized text, the empty string included; every other text leaves     *)
(* the record unchanged.                                                   *)
(***************************************************************************)
C18_TextCapture ==
    [][\A raw \in TextsOfTexts :
          characters(raw) =>
             data' = IF tag = "missiontypename" /\ Stripped(raw) = MISSIONTYPENAME
                     THEN <<>>
                     ELSE IF parse = TRUE /\ data # None /\ tag \in VarSet
                     THEN With(data, tag, Stripped(raw))
                     ELSE data]_vars

\* a text of whitespace alone was stored as the empty string, and a padded word
\* as the word
C18_Witness ==
    /\ parse = TRUE
    /\ data # None
    /\ {"commonname", "catchcount"} \subseteq DOMAIN data
    /\ data["commonname"] = <<>>
    /\ data["catchcount"] = <<"c", "o", "d">>

(***************************************************************************)
(* C20. Required values are real: every written row holds a commonname     *)
(* that is not empty and at least one quantity whose value is not empty.   *)
(***************************************************************************)
C20_RequiredValuesReal ==
    \A i \in 1..Len(rows) :
       /\ rows[i][16] # <<>>
       /\ \E j \in 17..21 : rows[i][j] \notin {<<>>, NA}

=============================================================================
